---- MODULE Spec2Model ----
(***************************************************************************)
(* A model of the ballin interpreter: the command registry, the pipeline   *)
(* parser (Interpreter::enqueue_command), the pipeline executor            *)
(* (Interpreter::execute), the registered primitives, the suggestion       *)
(* reporter with its edit distance, and the expression engine              *)
(* (Lexer::tokenize, parse_expression, evaluate_expression).               *)
(*                                                                         *)
(* A std::string is a sequence of one-character strings, so that           *)
(* splitting, prefix tests, number parsing and number formatting are       *)
(* computed character by character as the code computes them.              *)
(***************************************************************************)
EXTENDS Integers, Sequences, FiniteSets, TLC

VARIABLES
    commands_m,         \* CommandsMap::commands_m: name -> Command
    queuedCommands_m,   \* Interpreter::queuedCommands_m: the pipeline queue
    pc,                 \* position of main(): "prompt", "execute", "exited", "aborted", "diverged"
    input,              \* the line read by std::getline in this iteration of main()'s loop
    stage,              \* execute(): 0 before the master ran, then the next subcommand's index
    operationResult,    \* execute(): the running result list
    calls,              \* history: the action invocations of this iteration, in order
    out,                \* history: what this iteration printed, in order
    enqueued,           \* history: the masters pushed since execute() last returned, in order
    from,               \* calculate_edit_distance / handle_non_existing_command: commandName
    to,                 \* calculate_edit_distance: the second string
    distance,           \* the value calculate_edit_distance returned
    similarCommands,    \* the names handle_non_existing_command listed
    dpc,                \* position of the edit-distance harness
    infix,              \* the expression's words, handed to Lexer::tokenize
    tokens,             \* the token list tokenize returned
    expression,         \* the postfix sequence parse_expression returned
    value,              \* the value evaluate_expression returned
    epc                 \* position of the expression harness

interpVars ==
    <<commands_m, queuedCommands_m, pc, input, stage, operationResult, calls, out, enqueued>>
distVars == <<from, to, distance, similarCommands, dpc>>
evalVars == <<infix, tokens, expression, value, epc>>
vars == <<interpVars, distVars, evalVars>>

----------------------------------------------------------------------------
(* Bounds of the model.                                                    *)

\* the longest input line, in words, drawn from Vocabulary
MaxWords == 4
\* the longest string over Alphabet handed to calculate_edit_distance
MaxStrLen == 3
\* the largest number of operators in a generated infix expression
MaxOps == 2

----------------------------------------------------------------------------
(* Strings.                                                                *)

Digits == <<"0", "1", "2", "3", "4", "5", "6", "7", "8", "9">>

IsDigit(c) == \E i \in 1..10 : Digits[i] = c

DigitValue(c) == (CHOOSE i \in 1..10 : Digits[i] = c) - 1

Max(a, b) == IF a >= b THEN a ELSE b

\* std::views::take(n) and std::views::drop(n) on a sequence
Take(s, n) == SubSeq(s, 1, IF n < Len(s) THEN n ELSE Len(s))

Drop(s, n) == SubSeq(s, (IF n < Len(s) THEN n ELSE Len(s)) + 1, Len(s))

\* every sequence over S of length at most n
RECURSIVE SeqsUpTo(_, _)
SeqsUpTo(S, n) ==
    IF n = 0 THEN {<<>>}
    ELSE LET shorter == SeqsUpTo(S, n - 1)
         IN  shorter \cup {Append(s, x) : s \in {t \in shorter : Len(t) = n - 1}, x \in S}

----------------------------------------------------------------------------
(* The registry, as register_commands leaves it.                           *)

quit == <<"q", "u", "i", "t">>
echo == <<"e", "c", "h", "o">>
add == <<"a", "d", "d">>
sub == <<"s", "u", "b">>
mul == <<"m", "u", "l">>
div == <<"d", "i", "v">>
hex == <<"h", "e", "x">>
bin == <<"b", "i", "n">>
iota == <<"i", "o", "t", "a">>
apply == <<"a", "p", "p", "l", "y">>

\* std::numeric_limits<std::size_t>::max(), apply's declared arity. It is only
\* ever handed to take() and drop(), where any count beyond the list's length
\* acts alike; the model's integers end at 2^31 - 1.
SizeMax == 2147483647

\* Command::Command(commandName, numberOfArguments, commandAction): the action
\* is named by name_m and computed by Action below.
Command(commandName, numberOfArguments) ==
    [name_m |-> commandName, arguments_m |-> <<>>,
     numberOfArguments_m |-> numberOfArguments, subcommands_m |-> <<>>]

RegisteredCommands ==
    <<Command(quit, 0), Command(echo, 1), Command(add, 2), Command(sub, 2),
      Command(mul, 2), Command(div, 2), Command(hex, 1), Command(bin, 1),
      Command(iota, 2), Command(apply, SizeMax)>>

\* std::unordered_map<std::string, ballin::Command> commands_m {}
EmptyMap == [n \in {} |-> Command(n, 0)]

\* commands_m[command.name()] = command
AssignCommand(map, command) ==
    [n \in DOMAIN map \cup {command.name_m} |->
        IF n = command.name_m THEN command ELSE map[n]]

\* register_command without its assertion: the assignment alone
RegisterCommandOverwrite(map, command) ==
    [ok |-> TRUE, map |-> AssignCommand(map, command)]

\* CommandsMap::register_command: ok is FALSE where
\* assert(commands_m.contains(command.name()) != true) fails, which ends the
\* process before the assignment
register_command(map, command) ==
    IF command.name_m \in DOMAIN map
    THEN [ok |-> FALSE, map |-> map]
    ELSE [ok |-> TRUE, map |-> AssignCommand(map, command)]

\* the calls of register_commands from the i-th on, in the order of the source
RECURSIVE RegisterFrom(_, _, _)
RegisterFrom(map, commands, i) ==
    IF i > Len(commands) THEN [ok |-> TRUE, map |-> map]
    ELSE LET registered == register_command(map, commands[i])
         IN  IF registered.ok THEN RegisterFrom(registered.map, commands, i + 1)
             ELSE registered

\* the registry register_commands(commands) leaves in main()
register_commands == RegisterFrom(EmptyMap, RegisteredCommands, 1).map

----------------------------------------------------------------------------
(* calculate_edit_distance and handle_non_existing_command.                *)

Min3(a, b, c) == IF a <= b /\ a <= c THEN a ELSE IF b <= c THEN b ELSE c

\* the recursion with both base cases returning 0
RECURSIVE EditDistanceEmptyIsZero(_, _)
EditDistanceEmptyIsZero(f, t) ==
    IF f = <<>> THEN 0
    ELSE IF t = <<>> THEN Len(f)
    ELSE LET fromTail == Tail(f)
             toTail   == Tail(f)
         IN  IF Head(f) = Head(t)
             THEN EditDistanceEmptyIsZero(fromTail, toTail)
             ELSE 1 + Min3(EditDistanceEmptyIsZero(fromTail, t),
                           EditDistanceEmptyIsZero(toTail, f),
                           EditDistanceEmptyIsZero(fromTail, toTail))

\* the recursion with toTail taken from `to`
RECURSIVE EditDistanceToTail(_, _)
EditDistanceToTail(f, t) ==
    IF f = <<>> THEN Len(t)
    ELSE IF t = <<>> THEN Len(f)
    ELSE LET fromTail == Tail(f)
             toTail   == Tail(t)
         IN  IF Head(f) = Head(t)
             THEN EditDistanceToTail(fromTail, toTail)
             ELSE 1 + Min3(EditDistanceToTail(fromTail, t),
                           EditDistanceToTail(f, toTail),
                           EditDistanceToTail(fromTail, toTail))

\* calculate_edit_distance(from, to): toTail is from.substr(1), as in the source
RECURSIVE calculate_edit_distance(_, _)
calculate_edit_distance(f, t) ==
    IF f = <<>> THEN Len(t)
    ELSE IF t = <<>> THEN Len(f)
    ELSE LET fromTail == Tail(f)
             toTail   == Tail(f)
         IN  IF Head(f) = Head(t)
             THEN calculate_edit_distance(fromTail, toTail)
             ELSE 1 + Min3(calculate_edit_distance(fromTail, t),
                           calculate_edit_distance(toTail, f),
                           calculate_edit_distance(fromTail, toTail))

\* the filter's test in handle_non_existing_command: std::size_t arithmetic, so
\* (size - distance) / size is a truncating division. size is at least 1, a
\* registered name being non-empty, and distance never exceeds size (checked as
\* DistanceWithinSize), so the subtraction does not wrap.
IsSimilar(commandName, name) ==
    LET dist == calculate_edit_distance(commandName, name)
        size == Max(Len(commandName), Len(name))
    IN  ((size - dist) \div size) * 100 > 70

\* handle_non_existing_command(availableCommands, commandName): the names it
\* lists. They are printed in the unordered_map's iteration order, which the
\* standard leaves open: the model keeps the set.
handle_non_existing_command(availableCommands, commandName) ==
    {name \in DOMAIN availableCommands : IsSimilar(commandName, name)}

----------------------------------------------------------------------------
(* Numbers in and out of strings: std::stringstream >> and <<.             *)

\* the value of the longest prefix of digits of s, from acc
RECURSIVE LeadingDigits(_, _)
LeadingDigits(s, acc) ==
    IF s = <<>> \/ ~IsDigit(Head(s)) THEN acc
    ELSE LeadingDigits(Tail(s), acc * 10 + DigitValue(Head(s)))

HasSign(s) == s # <<>> /\ Head(s) \in {"-", "+"}

\* std::stringstream { s } >> float. The strings of the model hold no decimal
\* point and no exponent, and their values are integers below 10^6, which a
\* float holds exactly: an optional sign, then digits; no digit at all fails
\* the extraction and leaves 0.
ParseFloat(s) ==
    LET magnitude == LeadingDigits(IF HasSign(s) THEN Tail(s) ELSE s, 0)
    IN  IF s # <<>> /\ Head(s) = "-" THEN 0 - magnitude ELSE magnitude

\* std::stringstream { s } >> std::size_t. A leading minus is accepted and the
\* value negated modulo 2^64: the model writes the size_t 2^64 - k as -k.
ParseSizeT(s) == ParseFloat(s)

\* unsigned comparison of two size_t values in that representation
ULessEq(a, b) ==
    IF (a >= 0) = (b >= 0) THEN a <= b ELSE a >= 0

\* a + 1 modulo 2^64
USucc(a) == a + 1

RECURSIVE FormatNat(_)
FormatNat(n) ==
    IF n < 10 THEN <<Digits[n + 1]>>
    ELSE Append(FormatNat(n \div 10), Digits[(n % 10) + 1])

\* stream << f for a float holding an integer of magnitude below 10^6
FormatFloat(n) == IF n < 0 THEN <<"-">> \o FormatNat(0 - n) ELSE FormatNat(n)

\* n in exactly four decimal digits
Pad4(n) ==
    <<Digits[(n \div 1000) + 1], Digits[((n \div 100) % 10) + 1],
      Digits[((n \div 10) % 10) + 1], Digits[(n % 10) + 1]>>

\* stream << v for a size_t: 2^64 = 18446744073709551616, so 2^64 - k for
\* k <= 1616 is the sixteen leading digits followed by 1616 - k
FormatSizeT(v) ==
    IF v >= 0 THEN FormatNat(v)
    ELSE <<"1", "8", "4", "4", "6", "7", "4", "4", "0", "7", "3", "7", "0", "9", "5", "5">>
         \o Pad4(1616 + v)

HexDigits == Digits \o <<"a", "b", "c", "d", "e", "f">>

RECURSIVE FormatHexNat(_)
FormatHexNat(n) ==
    IF n < 16 THEN <<HexDigits[n + 1]>>
    ELSE Append(FormatHexNat(n \div 16), HexDigits[(n % 16) + 1])

\* stream << std::hex << v: 2^64 - k for k <= 16^4 is twelve f's, then the
\* four hex digits of 16^4 - k
FormatHex(v) ==
    IF v >= 0 THEN FormatHexNat(v)
    ELSE [i \in 1..12 |-> "f"] \o FormatHexNat(65536 + v)

\* std::bitset<width>(n).to_string()
Bits(n, width) ==
    [i \in 1..width |-> IF (n \div (2 ^ (width - i))) % 2 = 1 THEN "1" ELSE "0"]

\* the branches of bin: 8, 16, 32 or 64 digits by the value's size
FormatBin(v) ==
    IF v < 0 THEN [i \in 1..48 |-> "1"] \o Bits(65536 + v, 16)
    ELSE IF v <= 255 THEN Bits(v, 8)
    ELSE IF v <= 65535 THEN Bits(v, 16)
    ELSE [i \in 1..2 |-> "0"] \o Bits(v, 30)

\* arguments | std::views::join_with(' ')
RECURSIVE JoinWithSpace(_)
JoinWithSpace(words) ==
    IF words = <<>> THEN <<>>
    ELSE IF Len(words) = 1 THEN words[1]
    ELSE words[1] \o <<" ">> \o JoinWithSpace(Tail(words))

----------------------------------------------------------------------------
(* Command invocation and the primitives' actions.                         *)
(*                                                                         *)
(* An action's outcome: status "ok" (it returned result), "exit" (std::exit *)
(* was called), "throw" (an uncaught std::out_of_range left the action: the *)
(* process is terminated) or "diverge" (the action does not return);       *)
(* printed is what it wrote, invoked the invocations it made itself.       *)

Outcome(status, result, printed, invoked) ==
    [status |-> status, result |-> result, printed |-> printed, invoked |-> invoked]

Returns(result) == Outcome("ok", result, <<>>, <<>>)

Throws == Outcome("throw", <<>>, <<>>, <<>>)

\* one entry of the history calls: the action of name was handed arguments and
\* returned result (empty where it did not return); level is "stage" for a
\* stage of the pipeline and "applied" for an invocation made by apply
Call(name, arguments, level, result) ==
    [name |-> name, arguments |-> arguments, level |-> level, result |-> result]

\* the for_each of operator()(argument_t) pushing each argument to the front
RECURSIVE PushFrontAll(_, _)
PushFrontAll(localArguments, arguments) ==
    IF arguments = <<>> THEN localArguments
    ELSE PushFrontAll(<<Head(arguments)>> \o localArguments, Tail(arguments))

\* the for_each of Command::operator()(argument_t): push_back each argument
RECURSIVE PushBackAll(_, _)
PushBackAll(localArguments, arguments) ==
    IF arguments = <<>> THEN localArguments
    ELSE PushBackAll(Append(localArguments, Head(arguments)), Tail(arguments))

\* operator()(argument_t) with localArguments starting empty
LocalArgumentsDropBound(command, arguments) == PushBackAll(<<>>, arguments)

\* Command::operator()(argument_t): localArguments, the list handed to action_m
LocalArguments(command, arguments) == PushBackAll(command.arguments_m, arguments)

\* the list Command::operator()() hands to action_m
BoundArguments(command) == command.arguments_m

\* the arithmetic primitives add, sub, mul, div: at(0) and at(1) throw on a
\* list shorter than two. div is modelled where the quotient is an integer.
Arithmetic(name, arguments) ==
    IF Len(arguments) < 2 THEN Throws
    ELSE LET lhs == ParseFloat(arguments[1])
             rhs == ParseFloat(arguments[2])
         IN  CASE name = add -> Returns(<<FormatFloat(lhs + rhs)>>)
               [] name = sub -> Returns(<<FormatFloat(lhs - rhs)>>)
               [] name = mul -> Returns(<<FormatFloat(lhs * rhs)>>)
               [] name = div /\ rhs # 0 /\ lhs % rhs = 0 ->
                      Returns(<<FormatFloat(
                          (IF (lhs < 0) = (rhs < 0) THEN 1 ELSE 0 - 1)
                          * ((IF lhs < 0 THEN 0 - lhs ELSE lhs)
                             \div (IF rhs < 0 THEN 0 - rhs ELSE rhs)))>>)

\* iota: std::views::iota(minimum, maximum + 1) steps from minimum until it
\* equals the bound. With the bound below minimum (unsigned) the view's
\* precondition is broken: the loop steps on towards 2^64, pushing strings
\* until memory is exhausted, or a checked library build stops the process at
\* the precondition. Either way, as with a bound 2^63 or more steps away, the
\* action does not return: status "diverge".
Iota(arguments) ==
    IF Len(arguments) < 2 THEN Throws
    ELSE LET minimum == ParseSizeT(arguments[1])
             maximum == ParseSizeT(arguments[2])
             bound   == USucc(maximum)
         IN  IF ULessEq(minimum, bound) /\ (minimum >= 0) = (bound >= 0)
             THEN Returns([i \in 1..(bound - minimum) |-> FormatSizeT(minimum + i - 1)])
             ELSE Outcome("diverge", <<>>, <<>>, <<>>)

EchoEvent(text) == [kind |-> "echo", text |-> text]

NotFoundEvent(commandName, similar) ==
    [kind |-> "notfound", commandName |-> commandName, similarCommands |-> similar]

RECURSIVE Action(_, _)
RECURSIVE ApplyLoop(_, _, _, _, _, _)

\* the loop of apply over the streamed words: push_front the word, invoke the
\* target, keep the front of a non-empty result, pop_front
ApplyLoop(requestedCommand, requestedCommandArguments, stream, result, printed, invoked) ==
    IF stream = <<>> THEN Outcome("ok", result, printed, invoked)
    ELSE LET passed == LocalArguments(requestedCommand,
                           <<Head(stream)>> \o requestedCommandArguments)
             o      == Action(requestedCommand.name_m, passed)
             nowPrinted == printed \o o.printed
             nowInvoked == Append(invoked, Call(requestedCommand.name_m, passed, "applied",
                                                o.result))
                           \o o.invoked
         IN  IF o.status # "ok" THEN Outcome(o.status, <<>>, nowPrinted, nowInvoked)
             ELSE ApplyLoop(requestedCommand, requestedCommandArguments, Tail(stream),
                            IF o.result # <<>> THEN Append(result, Head(o.result)) ELSE result,
                            nowPrinted, nowInvoked)


\* apply throwing where its first argument names no registered command, the
\* way a checked lookup of the name would
ApplyThrowsOnUnknown(arguments) ==
    IF arguments = <<>> THEN Throws
    ELSE IF arguments[1] \notin DOMAIN commands_m THEN Throws
    ELSE LET requestedCommand == commands_m[arguments[1]]
             requestedCommandArguments ==
                 Drop(Take(arguments, requestedCommand.numberOfArguments_m), 1)
         IN  ApplyLoop(requestedCommand, requestedCommandArguments,
                       Drop(arguments, requestedCommand.numberOfArguments_m),
                       <<>>, <<>>, <<>>)
\* apply: arguments.at(0) names the target
Apply(arguments) ==
    IF arguments = <<>> THEN Throws
    ELSE IF arguments[1] \notin DOMAIN commands_m
    THEN Outcome("ok", <<>>,
                 <<NotFoundEvent(arguments[1],
                                 handle_non_existing_command(commands_m, arguments[1]))>>,
                 <<>>)
    ELSE LET requestedCommand == commands_m[arguments[1]]
             requestedCommandArguments ==
                 Drop(Take(arguments, requestedCommand.numberOfArguments_m), 1)
         IN  ApplyLoop(requestedCommand, requestedCommandArguments,
                       Drop(arguments, requestedCommand.numberOfArguments_m),
                       <<>>, <<>>, <<>>)

\* action_m of the command registered under name, applied to arguments
Action(name, arguments) ==
    CASE name = quit -> Outcome("exit", <<>>, <<>>, <<>>)
      \* echo as first written (it prints the joined list, an empty line for an
      \* empty list); the file's second copy returns before printing on an empty list
      [] name = echo -> Outcome("ok", <<>>, <<EchoEvent(JoinWithSpace(arguments))>>, <<>>)
      [] name \in {add, sub, mul, div} -> Arithmetic(name, arguments)
      [] name = hex ->
             IF arguments = <<>> THEN Throws
             ELSE Returns(<<<<"0", "x">> \o FormatHex(ParseSizeT(arguments[1]))>>)
      [] name = bin ->
             IF arguments = <<>> THEN Throws
             ELSE Returns(<<<<"0", "b">> \o FormatBin(ParseSizeT(arguments[1]))>>)
      [] name = iota -> Iota(arguments)
      [] name = apply -> Apply(arguments)

\* Command::operator()() const
InvokeNoArguments(command) == Action(command.name_m, BoundArguments(command))

\* Command::operator()(argument_t const arguments) const
Invoke(command, arguments) == Action(command.name_m, LocalArguments(command, arguments))

----------------------------------------------------------------------------
(* Interpreter::enqueue_command.                                           *)

\* input | std::views::split(' '): the empty line has no word, any other line
\* one word more than it has spaces
RECURSIVE SplitFrom(_, _)
SplitFrom(line, word) ==
    IF line = <<>> THEN <<word>>
    ELSE IF Head(line) = " " THEN <<word>> \o SplitFrom(Tail(line), <<>>)
    ELSE SplitFrom(Tail(line), Append(word, Head(line)))

Split(line) == IF line = <<>> THEN <<>> ELSE SplitFrom(line, <<>>)

\* value.front() == '|' ; the words of the model's lines are not empty
StartsWithPipe(word) == word # <<>> /\ Head(word) = "|"

\* std::views::chunk_by with the predicate rhs.front() != '|': a word that
\* starts with a pipe starts a new group
RECURSIVE ChunkFrom(_, _)
ChunkFrom(words, group) ==
    IF words = <<>> THEN <<group>>
    ELSE IF StartsWithPipe(Head(words)) THEN <<group>> \o ChunkFrom(Tail(words), <<Head(words)>>)
    ELSE ChunkFrom(Tail(words), Append(group, Head(words)))

ChunkBy(words) == IF words = <<>> THEN <<>> ELSE ChunkFrom(Tail(words), <<Head(words)>>)

\* input | std::views::drop_while(value.front() == '|'): drops every leading
\* word that starts with a pipe, the whole word
RECURSIVE DropWhilePipe(_)
DropWhilePipe(group) ==
    IF group # <<>> /\ StartsWithPipe(Head(group)) THEN DropWhilePipe(Tail(group))
    ELSE group

\* The name and arguments fnParseCommand reads from a group. view.front() on an
\* empty view (a group of pipe words only) is undefined: the read may fault, or
\* yield whatever lies behind the group, the next group's first word or an empty
\* word; views::drop(1) of the empty view is empty.
ParsedNames(commands, i) ==
    LET view == DropWhilePipe(commands[i])
    IN  IF view # <<>>
        THEN {[fault |-> FALSE, name |-> Head(view), arguments |-> Tail(view)]}
        ELSE {[fault |-> TRUE, name |-> <<>>, arguments |-> <<>>],
              [fault |-> FALSE, name |-> <<>>, arguments |-> <<>>]}
             \cup (IF i < Len(commands)
                   THEN {[fault |-> FALSE, name |-> commands[i + 1][1], arguments |-> <<>>]}
                   ELSE {})

\* what one call of enqueue_command may do: fault, or print printed and push
\* pushed; commands is the registry as the call leaves it
Enqueued(fault, pushed, printed, commands) ==
    [fault |-> fault, pushed |-> pushed, printed |-> printed, commands |-> commands]

\* fnParseCommand binding the arguments to the registry's own entry
EntryAfterParseByReference(entry, arguments) ==
    [entry EXCEPT !.arguments_m = PushBackAll(@, arguments)]

\* auto command = entry->second: the arguments are pushed onto a copy, and the
\* registry's entry is as it was
EntryAfterParse(entry, arguments) == entry

\* fnParseCommand on group i, then on the groups after it, resolving names in
\* the registry map: the first group is the master, each later one is pushed
\* as its subcommand; the first group not found prints the message and ends
\* the call with nothing pushed
RECURSIVE ParseGroups(_, _, _, _)
ParseGroups(commands, i, masterCommand, map) ==
    IF i > Len(commands) THEN {Enqueued(FALSE, <<masterCommand>>, <<>>, map)}
    ELSE UNION {
        IF parsed.fault THEN {Enqueued(TRUE, <<>>, <<>>, map)}
        ELSE IF parsed.name \notin DOMAIN map
        THEN {Enqueued(FALSE, <<>>,
                       <<NotFoundEvent(parsed.name,
                                       handle_non_existing_command(map, parsed.name))>>,
                       map)}
        ELSE LET command == [map[parsed.name] EXCEPT
                                !.arguments_m = PushBackAll(@, parsed.arguments)]
                 after   == [map EXCEPT ![parsed.name] =
                                EntryAfterParse(@, parsed.arguments)]
             IN  ParseGroups(commands, i + 1,
                     IF i = 1 THEN command
                     ELSE [masterCommand EXCEPT !.subcommands_m = Append(@, command)],
                     after)
        : parsed \in ParsedNames(commands, i)}

\* enqueue_command(input): every outcome the call may have. commands.front() of
\* an empty line's empty range of groups is undefined as well: it reads as a
\* group without a word.
enqueue_command(line) ==
    LET commands == ChunkBy(Split(line))
    IN  ParseGroups(IF commands = <<>> THEN <<<<>>>> ELSE commands, 1, Command(<<>>, 0),
                    commands_m)

----------------------------------------------------------------------------
(* The input lines of the model.                                           *)

eco == <<"e", "c", "o">>

Pipe == <<"|">>

\* the words the generated lines are made of: registered names, a name that is
\* not registered, the pipe alone and glued to a name, and numbers
Vocabulary ==
    {echo, iota, sub, apply, eco, Pipe, Pipe \o echo, Pipe \o eco, <<"1">>, <<"3">>}

\* longer lines: the ones the specification names, a stage with bound
\* arguments fed a result, and pipelines with quit
ExampleLines ==
    {<<iota, <<"1">>, <<"3">>, Pipe, echo>>,
     <<iota, <<"1">>, <<"3">>, Pipe, echo, <<"3">>>>,
     <<iota, <<"1">>, <<"3">>, Pipe \o echo>>,
     <<apply, sub, <<"1", "0">>, <<"1">>, <<"2">>, <<"3">>>>,
     <<eco, <<"1">>, <<"2">>>>,
     <<quit>>,
     <<quit, Pipe, echo, <<"1">>>>,
     <<iota, <<"1">>, <<"3">>, Pipe, quit, Pipe, echo>>}

\* every line of one to MaxWords words of Vocabulary separated by single
\* spaces, and the example lines
Lines ==
    {JoinWithSpace(words) :
        words \in (SeqsUpTo(Vocabulary, MaxWords) \ {<<>>}) \cup ExampleLines}

----------------------------------------------------------------------------
(* main(): read a line, enqueue_command, execute, again.                   *)

InterpInit ==
    /\ commands_m = register_commands
    /\ queuedCommands_m = <<>>
    /\ pc = "prompt"
    /\ input = <<>>
    /\ stage = 0
    /\ operationResult = <<>>
    /\ calls = <<>>
    /\ out = <<>>
    /\ enqueued = <<>>

\* an action that always returns to execute(): quit's unreachable return {}
AfterStatusReturns(status) == "execute"

\* where a stage's outcome leaves main()
AfterStatus(status) ==
    CASE status = "ok" -> "execute"
      [] status = "exit" -> "exited"
      [] status = "throw" -> "aborted"
      [] status = "diverge" -> "diverged"

\* std::getline(std::cin, input); interpreter.enqueue_command(input);
EnqueueCommand ==
    /\ pc = "prompt"
    /\ \E line \in Lines : \E o \in enqueue_command(line) :
        /\ input' = line
        /\ pc' = IF o.fault THEN "aborted" ELSE "execute"
        /\ queuedCommands_m' = queuedCommands_m \o o.pushed
        /\ out' = o.printed
        /\ enqueued' = enqueued \o o.pushed
        /\ commands_m' = o.commands
    /\ stage' = 0
    /\ operationResult' = <<>>
    /\ calls' = <<>>
    /\ UNCHANGED <<distVars, evalVars>>

\* execute(): auto operationResult = masterCommand();
ExecuteMaster ==
    /\ pc = "execute"
    /\ queuedCommands_m # <<>>
    /\ stage = 0
    /\ LET masterCommand == Head(queuedCommands_m)
           o == InvokeNoArguments(masterCommand)
       IN  /\ calls' = Append(calls, Call(masterCommand.name_m, BoundArguments(masterCommand),
                                          "stage", o.result))
                       \o o.invoked
           /\ out' = out \o o.printed
           /\ operationResult' = o.result
           /\ pc' = AfterStatus(o.status)
    /\ stage' = 1
    /\ UNCHANGED <<commands_m, queuedCommands_m, input, enqueued, distVars, evalVars>>

\* execute(): operationResult = subcommand(operationResult);
ExecuteSubcommand ==
    /\ pc = "execute"
    /\ queuedCommands_m # <<>>
    /\ stage >= 1
    /\ stage <= Len(Head(queuedCommands_m).subcommands_m)
    /\ LET subcommand == Head(queuedCommands_m).subcommands_m[stage]
           o == Invoke(subcommand, operationResult)
       IN  /\ calls' = Append(calls, Call(subcommand.name_m,
                                          LocalArguments(subcommand, operationResult), "stage",
                                          o.result))
                       \o o.invoked
           /\ out' = out \o o.printed
           /\ operationResult' = o.result
           /\ pc' = AfterStatus(o.status)
    /\ stage' = stage + 1
    /\ UNCHANGED <<commands_m, queuedCommands_m, input, enqueued, distVars, evalVars>>

\* execute() popping the newest master instead of the one it ran
ExecutePopBack ==
    /\ pc = "execute"
    /\ queuedCommands_m # <<>>
    /\ stage = Len(Head(queuedCommands_m).subcommands_m) + 1
    /\ queuedCommands_m' = SubSeq(queuedCommands_m, 1, Len(queuedCommands_m) - 1)
    /\ stage' = 0
    /\ operationResult' = <<>>
    /\ UNCHANGED <<commands_m, pc, input, calls, out, enqueued, distVars, evalVars>>

\* execute(): queuedCommands_m.pop(); operationResult ends with the loop body
ExecutePop ==
    /\ pc = "execute"
    /\ queuedCommands_m # <<>>
    /\ stage = Len(Head(queuedCommands_m).subcommands_m) + 1
    /\ queuedCommands_m' = Tail(queuedCommands_m)
    /\ stage' = 0
    /\ operationResult' = <<>>
    /\ UNCHANGED <<commands_m, pc, input, calls, out, enqueued, distVars, evalVars>>

\* execute() returning without looking at the queue
ExecuteReturnEarly ==
    /\ pc = "execute"
    /\ stage = 0
    /\ pc' = "prompt"
    /\ input' = <<>>
    /\ calls' = <<>>
    /\ out' = <<>>
    /\ enqueued' = <<>>
    /\ UNCHANGED <<commands_m, queuedCommands_m, stage, operationResult, distVars, evalVars>>

\* execute() finds the queue empty and returns; main() loops to the prompt,
\* where the histories of the iteration start afresh
ExecuteReturn ==
    /\ pc = "execute"
    /\ queuedCommands_m = <<>>
    /\ pc' = "prompt"
    /\ input' = <<>>
    /\ calls' = <<>>
    /\ out' = <<>>
    /\ enqueued' = <<>>
    /\ UNCHANGED <<commands_m, queuedCommands_m, stage, operationResult, distVars, evalVars>>

DistIdle ==
    /\ from = <<>>
    /\ to = <<>>
    /\ distance = 0
    /\ similarCommands = {}
    /\ dpc = "idle"

EvalIdle ==
    /\ infix = <<>>
    /\ tokens = <<>>
    /\ expression = <<>>
    /\ value = [n |-> 0, d |-> 1]
    /\ epc = "idle"

Init == InterpInit /\ DistIdle /\ EvalIdle

Next ==
    \/ EnqueueCommand
    \/ ExecuteMaster
    \/ ExecuteSubcommand
    \/ ExecutePop
    \/ ExecuteReturn

Spec == Init /\ [][Next]_vars

----------------------------------------------------------------------------
(* The Interpreter used by a caller that enqueues several lines before it  *)
(* calls execute().                                                        *)

\* the most pipelines queued before a call of execute()
MaxQueue == 3

\* lines that queue a pipeline: `echo 1`, `iota 1 3 | echo`, `sub 3 1 | echo`,
\* `quit | echo 1`, `iota 1 3 | quit | echo`, `apply quit 1` and `sub`
QueueLines ==
    {JoinWithSpace(words) : words \in
        {<<echo, <<"1">>>>,
         <<iota, <<"1">>, <<"3">>, Pipe, echo>>,
         <<sub, <<"3">>, <<"1">>, Pipe, echo>>,
         <<quit, Pipe, echo, <<"1">>>>,
         <<iota, <<"1">>, <<"3">>, Pipe, quit, Pipe, echo>>,
         <<apply, quit, <<"1">>>>,
         <<sub>>}}

\* interpreter.enqueue_command(line), execute() not yet called
EnqueueOnly ==
    /\ pc = "prompt"
    /\ Len(queuedCommands_m) < MaxQueue
    /\ \E line \in QueueLines : \E o \in enqueue_command(line) :
        /\ input' = line
        /\ pc' = IF o.fault THEN "aborted" ELSE "prompt"
        /\ queuedCommands_m' = queuedCommands_m \o o.pushed
        /\ out' = out \o o.printed
        /\ enqueued' = enqueued \o o.pushed
        /\ commands_m' = o.commands
    /\ UNCHANGED <<stage, operationResult, calls, distVars, evalVars>>

\* interpreter.execute() is called
CallExecute ==
    /\ pc = "prompt"
    /\ pc' = "execute"
    /\ UNCHANGED <<commands_m, queuedCommands_m, input, stage, operationResult, calls, out,
                   enqueued, distVars, evalVars>>

QueueNext ==
    \/ EnqueueOnly
    \/ CallExecute
    \/ ExecuteMaster
    \/ ExecuteSubcommand
    \/ ExecutePop
    \/ ExecuteReturn

SpecQueue == Init /\ [][QueueNext]_vars

----------------------------------------------------------------------------
(* calculate_edit_distance and handle_non_existing_command on their own.   *)

Alphabet == {"e", "c"}

\* the strings handed to calculate_edit_distance: every string over Alphabet of
\* at most MaxStrLen characters, the registered names and a name close to one
Strings == SeqsUpTo(Alphabet, MaxStrLen) \cup DOMAIN register_commands \cup {eco}

DistInit ==
    /\ from \in Strings
    /\ to \in Strings
    /\ distance = 0
    /\ similarCommands = {}
    /\ dpc = "input"

\* auto const distance = calculate_edit_distance(commandName, value);
CalculateEditDistance ==
    /\ dpc = "input"
    /\ distance' = calculate_edit_distance(from, to)
    /\ dpc' = "distance"
    /\ UNCHANGED <<from, to, similarCommands, interpVars, evalVars>>

\* handle_non_existing_command(commands_m, from), called for a name the map does not hold
HandleNonExistingCommand ==
    /\ dpc = "input"
    /\ from \notin DOMAIN commands_m
    /\ similarCommands' = handle_non_existing_command(commands_m, from)
    /\ dpc' = "reported"
    /\ UNCHANGED <<from, to, distance, interpVars, evalVars>>

DistNext == CalculateEditDistance \/ HandleNonExistingCommand

InitDist == InterpInit /\ DistInit /\ EvalIdle

SpecDist == InitDist /\ [][DistNext]_vars

----------------------------------------------------------------------------
(* The expression engine: Lexer::tokenize, parse_expression and            *)
(* evaluate_expression.                                                    *)

\* enum class Precedence { NONE, _3, _2, _1 }: the enumerators' values, which
\* the comparisons of parse_expression order
PrecedenceNONE == 0
Precedence_3 == 1
Precedence_2 == 2
Precedence_1 == 3

\* struct Token; Token token {} zeroes every member: NUMBER, NONE, LEFT, ""
Token(type, precedence, word) ==
    [type |-> type, precedence |-> precedence, fixity |-> "LEFT", value |-> word]

\* std::istream_iterator<std::string>: the words between runs of spaces
RECURSIVE StreamWordsFrom(_, _)
StreamWordsFrom(stream, word) ==
    IF stream = <<>> THEN (IF word = <<>> THEN <<>> ELSE <<word>>)
    ELSE IF Head(stream) = " "
    THEN (IF word = <<>> THEN <<>> ELSE <<word>>) \o StreamWordsFrom(Tail(stream), <<>>)
    ELSE StreamWordsFrom(Tail(stream), Append(word, Head(stream)))

StreamWords(stream) == StreamWordsFrom(stream, <<>>)

\* the test of tokenize: every byte is a digit or a decimal point
IsNumberWord(word) == \A i \in 1..Len(word) : IsDigit(word[i]) \/ word[i] = "."

\* tokenize without its assertion: a word no case takes keeps the members
\* Token token {} gave it
TokenOfUnchecked(word) ==
    IF IsNumberWord(word) THEN [ok |-> TRUE, token |-> Token("NUMBER", PrecedenceNONE, word)]
    ELSE CASE Head(word) \in {"+", "-"} ->
                  [ok |-> TRUE, token |-> Token("OPERATOR", Precedence_3, word)]
           [] Head(word) \in {"*", "/"} ->
                  [ok |-> TRUE, token |-> Token("OPERATOR", Precedence_2, word)]
           [] Head(word) = "(" ->
                  [ok |-> TRUE, token |-> Token("LPAREN", Precedence_1, word)]
           [] Head(word) = ")" ->
                  [ok |-> TRUE, token |-> Token("RPAREN", Precedence_1, word)]
           [] OTHER -> [ok |-> TRUE, token |-> Token("NUMBER", PrecedenceNONE, word)]

\* the token tokenize makes of one word; ok is FALSE where the switch reaches
\* its default, assert(false && "UNRECOGNIZED SYMBOL WAS REACHED")
TokenOf(word) ==
    IF IsNumberWord(word) THEN [ok |-> TRUE, token |-> Token("NUMBER", PrecedenceNONE, word)]
    ELSE CASE Head(word) \in {"+", "-"} ->
                  [ok |-> TRUE, token |-> Token("OPERATOR", Precedence_3, word)]
           [] Head(word) \in {"*", "/"} ->
                  [ok |-> TRUE, token |-> Token("OPERATOR", Precedence_2, word)]
           [] Head(word) = "(" ->
                  [ok |-> TRUE, token |-> Token("LPAREN", Precedence_1, word)]
           [] Head(word) = ")" ->
                  [ok |-> TRUE, token |-> Token("RPAREN", Precedence_1, word)]
           [] OTHER -> [ok |-> FALSE, token |-> Token("NUMBER", PrecedenceNONE, word)]

\* Lexer::tokenize over the words of the stream
tokenize(stream) ==
    LET words == StreamWords(stream)
    IN  [ok |-> \A i \in 1..Len(words) : TokenOf(words[i]).ok,
         tokens |-> [i \in 1..Len(words) |-> TokenOf(words[i]).token]]

is_left_parenthesis(token) == token.type = "LPAREN"

\* the while loop of the OPERATOR case, popping only on a lower precedence
RECURSIVE PopOperatorsRightFixed(_, _, _)
PopOperatorsRightFixed(token, output, expressionOperators) ==
    IF expressionOperators = <<>> THEN [output |-> output, operators |-> expressionOperators]
    ELSE LET front == Head(expressionOperators)
             hasLowerPrecedence == token.precedence < front.precedence
         IN  IF is_left_parenthesis(front) \/ ~hasLowerPrecedence
             THEN [output |-> output, operators |-> expressionOperators]
             ELSE PopOperatorsRightFixed(token, Append(output, front), Tail(expressionOperators))

\* the while loop of the OPERATOR case: pop the front of the side-stack to the
\* output until it is a left parenthesis or binds less than the token
RECURSIVE PopOperators(_, _, _)
PopOperators(token, output, expressionOperators) ==
    IF expressionOperators = <<>> THEN [output |-> output, operators |-> expressionOperators]
    ELSE LET front == Head(expressionOperators)
             hasLowerPrecedence == token.precedence < front.precedence
             hasEqualPrecedence == token.precedence = front.precedence
         IN  IF is_left_parenthesis(front)
                \/ ~(hasLowerPrecedence \/ (hasEqualPrecedence /\ token.fixity = "LEFT"))
             THEN [output |-> output, operators |-> expressionOperators]
             ELSE PopOperators(token, Append(output, front), Tail(expressionOperators))

\* the while loop of the RPAREN case: pop to the output down to a left parenthesis
RECURSIVE PopToLeftParenthesis(_, _)
PopToLeftParenthesis(output, expressionOperators) ==
    IF expressionOperators # <<>> /\ ~is_left_parenthesis(Head(expressionOperators))
    THEN PopToLeftParenthesis(Append(output, Head(expressionOperators)),
                              Tail(expressionOperators))
    ELSE [output |-> output, operators |-> expressionOperators]

\* parse_expression without its assertion: a right parenthesis that finds the
\* side-stack empty is passed over
RECURSIVE ParseFromUnchecked(_, _, _, _)
ParseFromUnchecked(tokenList, i, output, expressionOperators) ==
    IF i > Len(tokenList)
    THEN [ok |-> TRUE, expression |-> output \o expressionOperators]
    ELSE LET token == tokenList[i]
         IN  CASE token.type = "NUMBER" ->
                      ParseFromUnchecked(tokenList, i + 1, Append(output, token),
                                         expressionOperators)
               [] token.type = "OPERATOR" ->
                      LET popped == PopOperators(token, output, expressionOperators)
                      IN  ParseFromUnchecked(tokenList, i + 1, popped.output,
                                             <<token>> \o popped.operators)
               [] token.type = "LPAREN" ->
                      ParseFromUnchecked(tokenList, i + 1, output,
                                         <<token>> \o expressionOperators)
               [] token.type = "RPAREN" ->
                      LET popped == PopToLeftParenthesis(output, expressionOperators)
                      IN  ParseFromUnchecked(tokenList, i + 1, popped.output,
                                             IF popped.operators = <<>> THEN <<>>
                                             ELSE Tail(popped.operators))

\* the for loop of parse_expression from token i on; the side-stack's front is
\* its head. ok is FALSE where assert(!expressionOperators.empty() &&
\* "MISMATCHING PARENTHESIS") fails.
RECURSIVE ParseFrom(_, _, _, _)
ParseFrom(tokenList, i, output, expressionOperators) ==
    IF i > Len(tokenList)
    THEN [ok |-> TRUE, expression |-> output \o expressionOperators]
    ELSE LET token == tokenList[i]
         IN  CASE token.type = "NUMBER" ->
                      ParseFrom(tokenList, i + 1, Append(output, token), expressionOperators)
               [] token.type = "OPERATOR" ->
                      LET popped == PopOperators(token, output, expressionOperators)
                      IN  ParseFrom(tokenList, i + 1, popped.output,
                                    <<token>> \o popped.operators)
               [] token.type = "LPAREN" ->
                      ParseFrom(tokenList, i + 1, output, <<token>> \o expressionOperators)
               [] token.type = "RPAREN" ->
                      LET popped == PopToLeftParenthesis(output, expressionOperators)
                      IN  IF popped.operators = <<>>
                          THEN [ok |-> FALSE, expression |-> <<>>]
                          ELSE ParseFrom(tokenList, i + 1, popped.output,
                                         Tail(popped.operators))

parse_expression(tokenList) == ParseFrom(tokenList, 1, <<>>, <<>>)

----------------------------------------------------------------------------
(* float values. A value is n/d in lowest terms with d > 0, or, with d = 0, *)
(* an infinity (n = 1, n = -1) or a NaN (n = 0). The rounding of a float and *)
(* the sign of a zero are left out: the expressions of the model are short  *)
(* sequences of small integers, and their values are compared for the order *)
(* in which the operands were combined.                                     *)

Abs(n) == IF n < 0 THEN 0 - n ELSE n

Sign(n) == IF n < 0 THEN 0 - 1 ELSE IF n > 0 THEN 1 ELSE 0

RECURSIVE GCD(_, _)
GCD(a, b) == IF b = 0 THEN a ELSE GCD(b, a % b)

Float(n, d) ==
    IF d = 0 THEN [n |-> Sign(n), d |-> 0]
    ELSE LET g == GCD(Abs(n), Abs(d))
         IN  [n |-> Sign(d) * (n \div g), d |-> Abs(d) \div g]

IsNaN(x) == x.d = 0 /\ x.n = 0

IsInf(x) == x.d = 0 /\ x.n # 0

FloatAdd(x, y) ==
    IF IsNaN(x) \/ IsNaN(y) THEN Float(0, 0)
    ELSE IF IsInf(x) /\ IsInf(y) THEN (IF x.n = y.n THEN x ELSE Float(0, 0))
    ELSE IF IsInf(x) THEN x
    ELSE IF IsInf(y) THEN y
    ELSE Float(x.n * y.d + y.n * x.d, x.d * y.d)

FloatNeg(x) == [n |-> 0 - x.n, d |-> x.d]

FloatSub(x, y) == FloatAdd(x, FloatNeg(y))

FloatMul(x, y) ==
    IF IsNaN(x) \/ IsNaN(y) THEN Float(0, 0)
    ELSE IF IsInf(x) \/ IsInf(y) THEN Float(Sign(x.n) * Sign(y.n), 0)
    ELSE Float(x.n * y.n, x.d * y.d)

FloatDiv(x, y) ==
    IF IsNaN(x) \/ IsNaN(y) THEN Float(0, 0)
    ELSE IF IsInf(y) THEN (IF IsInf(x) THEN Float(0, 0) ELSE Float(0, 1))
    ELSE IF IsInf(x) THEN Float(x.n * (IF y.n < 0 THEN 0 - 1 ELSE 1), 0)
    ELSE Float(x.n * y.d, x.d * y.n)

\* the inner switch with the operands the other way round: lhs op= rhs
ApplyOperatorSwapped(symbol, a, b) ==
    CASE symbol = "+" -> FloatAdd(b, a)
      [] symbol = "-" -> FloatSub(b, a)
      [] symbol = "*" -> FloatMul(b, a)
      [] symbol = "/" -> FloatDiv(b, a)
      [] OTHER -> b

\* the inner switch of evaluate_expression on token.value.front(): a op= b
ApplyOperator(symbol, a, b) ==
    CASE symbol = "+" -> FloatAdd(a, b)
      [] symbol = "-" -> FloatSub(a, b)
      [] symbol = "*" -> FloatMul(a, b)
      [] symbol = "/" -> FloatDiv(a, b)
      [] OTHER -> a

\* the for loop of evaluate_expression from token i on; the stack's top is its
\* head. ok is FALSE where top() is called on an empty stack, which is
\* undefined. The first value popped is named lhs, the second rhs, and the
\* result is rhs op= lhs.
RECURSIVE EvaluateFrom(_, _, _)
EvaluateFrom(tokenList, i, expressionStack) ==
    IF i > Len(tokenList)
    THEN (IF expressionStack = <<>> THEN [ok |-> FALSE, value |-> Float(0, 1)]
          ELSE [ok |-> TRUE, value |-> Head(expressionStack)])
    ELSE LET token == tokenList[i]
         IN  CASE token.type = "NUMBER" ->
                      EvaluateFrom(tokenList, i + 1,
                                   <<Float(ParseFloat(token.value), 1)>> \o expressionStack)
               [] token.type = "OPERATOR" ->
                      IF Len(expressionStack) < 2 THEN [ok |-> FALSE, value |-> Float(0, 1)]
                      ELSE LET lhs == expressionStack[1]
                               rhs == expressionStack[2]
                           IN  EvaluateFrom(tokenList, i + 1,
                                   <<ApplyOperator(Head(token.value), rhs, lhs)>>
                                   \o Tail(Tail(expressionStack)))
               [] OTHER -> EvaluateFrom(tokenList, i + 1, expressionStack)

evaluate_expression(tokenList) == EvaluateFrom(tokenList, 1, <<>>)

----------------------------------------------------------------------------
(* The expressions of the model.                                           *)

Numbers == {2, 3}

Operators == {"+", "-", "*", "/"}

\* The expression trees with at most k operators. A leaf is <<"n", v>>; a node
\* is <<op, left, right, wrap>>, wrap saying that it is written in parentheses
\* even where the rules do not ask for them.
RECURSIVE Trees(_)
Trees(k) ==
    {<<"n", v>> : v \in Numbers}
    \cup (IF k = 0 THEN {}
          ELSE UNION {{<<op, l, r, wrap>> :
                          op \in Operators, l \in Trees(i), r \in Trees(k - 1 - i),
                          wrap \in BOOLEAN}
                      : i \in 0..(k - 1)})

IsLeaf(tree) == Len(tree) = 2

Binding(op) == IF op \in {"*", "/"} THEN 2 ELSE 1

InParentheses(words) == <<<<"(">>>> \o words \o <<<<")">>>>

\* The words of a tree. An operand is written in parentheses where the usual
\* rules need them: a left operand that binds less than the operator, a right
\* operand that binds less or equally.
RECURSIVE Unparse(_)
Unparse(tree) ==
    IF IsLeaf(tree) THEN <<FormatNat(tree[2])>>
    ELSE LET op == tree[1]
             l  == tree[2]
             r  == tree[3]
             lw == IF ~IsLeaf(l) /\ (l[4] \/ Binding(l[1]) < Binding(op))
                   THEN InParentheses(Unparse(l)) ELSE Unparse(l)
             rw == IF ~IsLeaf(r) /\ (r[4] \/ Binding(r[1]) <= Binding(op))
                   THEN InParentheses(Unparse(r)) ELSE Unparse(r)
         IN  lw \o <<<<op>>>> \o rw

UnparseTop(tree) ==
    IF ~IsLeaf(tree) /\ tree[4] THEN InParentheses(Unparse(tree)) ELSE Unparse(tree)

\* `3 + 4 * 2`, `( 3 + 4 ) * 2`, `8 - 3` and `10 - 4 - 3`
ExampleExpressions ==
    {<<<<"3">>, <<"+">>, <<"4">>, <<"*">>, <<"2">>>>,
     <<<<"(">>, <<"3">>, <<"+">>, <<"4">>, <<")">>, <<"*">>, <<"2">>>>,
     <<<<"8">>, <<"-">>, <<"3">>>>,
     <<<<"1", "0">>, <<"-">>, <<"4">>, <<"-">>, <<"3">>>>}

Expressions ==
    {JoinWithSpace(words) :
        words \in {UnparseTop(tree) : tree \in Trees(MaxOps)} \cup ExampleExpressions}

EvalInit ==
    /\ infix \in Expressions
    /\ tokens = <<>>
    /\ expression = <<>>
    /\ value = Float(0, 1)
    /\ epc = "infix"

\* Lexer { infix }.tokenize(); where an assertion fails the process ends and
\* the caller is handed nothing
Tokenize ==
    /\ epc = "infix"
    /\ LET r == tokenize(infix)
       IN  /\ tokens' = IF r.ok THEN r.tokens ELSE tokens
           /\ epc' = IF r.ok THEN "tokens" ELSE "aborted"
    /\ UNCHANGED <<infix, expression, value, interpVars, distVars>>

\* parse_expression(tokens)
ParseExpression ==
    /\ epc = "tokens"
    /\ LET r == parse_expression(tokens)
       IN  /\ expression' = r.expression
           /\ epc' = IF r.ok THEN "postfix" ELSE "aborted"
    /\ UNCHANGED <<infix, tokens, value, interpVars, distVars>>

\* evaluate_expression(expression)
EvaluateExpression ==
    /\ epc = "postfix"
    /\ LET r == evaluate_expression(expression)
       IN  /\ value' = r.value
           /\ epc' = IF r.ok THEN "value" ELSE "undefined"
    /\ UNCHANGED <<infix, tokens, expression, interpVars, distVars>>

EvalNext == Tokenize \/ ParseExpression \/ EvaluateExpression

InitEval == InterpInit /\ DistIdle /\ EvalInit

SpecEval == InitEval /\ [][EvalNext]_vars

----------------------------------------------------------------------------
(* The expression engine on any stream of words, well-formed or not.       *)

MaxTokens == 3

\* the words of the streams: a number, operators, parentheses, words tokenize
\* has no case for or takes by their first character alone, and digits with
\* more than one point
LexWords ==
    {<<"2">>, <<"+">>, <<"*">>, <<"(">>, <<")">>, <<"x">>, <<"2", "+">>, <<"+", "x">>,
     <<"2", ".", ".">>}

WordStreams == {JoinWithSpace(words) : words \in SeqsUpTo(LexWords, MaxTokens)}

LexInit ==
    /\ infix \in WordStreams
    /\ tokens = <<>>
    /\ expression = <<>>
    /\ value = Float(0, 1)
    /\ epc = "infix"

InitLex == InterpInit /\ DistIdle /\ LexInit

SpecLex == InitLex /\ [][EvalNext]_vars

----------------------------------------------------------------------------
(* CommandsMap::register_command on its own: any sequence of registrations *)
(* on the map main() constructs, the ones of register_commands among them. *)

\* definitions that share a name with one of register_commands
Redefinitions == {Command(echo, 2), Command(add, 1)}

\* the commands handed to register_command
Definitions ==
    {RegisteredCommands[i] : i \in 1..Len(RegisteredCommands)} \cup Redefinitions

\* ballin::CommandsMap commands {}
InitReg ==
    /\ commands_m = EmptyMap
    /\ queuedCommands_m = <<>>
    /\ pc = "registering"
    /\ input = <<>>
    /\ stage = 0
    /\ operationResult = <<>>
    /\ calls = <<>>
    /\ out = <<>>
    /\ enqueued = <<>>
    /\ DistIdle
    /\ EvalIdle

\* commands.register_command(command)
RegisterCommand ==
    /\ pc = "registering"
    /\ \E command \in Definitions :
        LET registered == register_command(commands_m, command)
        IN  /\ commands_m' = registered.map
            /\ pc' = IF registered.ok THEN "registering" ELSE "aborted"
    /\ UNCHANGED <<queuedCommands_m, input, stage, operationResult, calls, out, enqueued,
                   distVars, evalVars>>

RegNext == RegisterCommand

SpecReg == InitReg /\ [][RegNext]_vars

----------------------------------------------------------------------------
(* The value of an infix expression under the usual rules, read from its   *)
(* words by recursive descent: an expression is terms joined by + and -, a *)
(* term is factors joined by * and /, both from left to right, and a factor *)
(* is a number or an expression in parentheses.                            *)

RECURSIVE UsualExpression(_)
RECURSIVE UsualTermRest(_, _)
RECURSIVE UsualExpressionRest(_, _)

UsualFactor(words) ==
    IF Head(words) = <<"(">>
    THEN LET inner == UsualExpression(Tail(words))
         IN  [value |-> inner.value, rest |-> Tail(inner.rest)]
    ELSE [value |-> Float(LeadingDigits(Head(words), 0), 1), rest |-> Tail(words)]

UsualTermRest(acc, words) ==
    IF words # <<>> /\ Head(words) \in {<<"*">>, <<"/">>}
    THEN LET factor == UsualFactor(Tail(words))
         IN  UsualTermRest(IF Head(words) = <<"*">> THEN FloatMul(acc, factor.value)
                           ELSE FloatDiv(acc, factor.value),
                           factor.rest)
    ELSE [value |-> acc, rest |-> words]

UsualTerm(words) ==
    LET factor == UsualFactor(words) IN UsualTermRest(factor.value, factor.rest)

UsualExpressionRest(acc, words) ==
    IF words # <<>> /\ Head(words) \in {<<"+">>, <<"-">>}
    THEN LET term == UsualTerm(Tail(words))
         IN  UsualExpressionRest(IF Head(words) = <<"+">> THEN FloatAdd(acc, term.value)
                                 ELSE FloatSub(acc, term.value),
                                 term.rest)
    ELSE [value |-> acc, rest |-> words]

UsualExpression(words) ==
    LET term == UsualTerm(words) IN UsualExpressionRest(term.value, term.rest)

UsualValue(stream) == UsualExpression(Split(stream)).value

----------------------------------------------------------------------------
(* The claims.                                                             *)

\* the invocations of pipeline stages, and those apply made, in order
StageCalls == SelectSeq(calls, LAMBDA c : c.level = "stage")

AppliedCalls == SelectSeq(calls, LAMBDA c : c.level = "applied")

\* A group of words as the specification reads it: a pipe glued to the first
\* word is stripped from it, a pipe standing alone is dropped; the first word
\* left is the stage's name and the rest are its bound arguments.
StripLeadingPipe(group) ==
    IF group = <<>> THEN <<>>
    ELSE IF group[1] = Pipe THEN Tail(group)
    ELSE IF StartsWithPipe(group[1]) THEN <<Tail(group[1])>> \o Tail(group)
    ELSE group

\* some stage of the line names a command that is not registered
SomeStageUnknown(line) ==
    \E i \in 1..Len(ChunkBy(Split(line))) :
        LET written == StripLeadingPipe(ChunkBy(Split(line))[i])
        IN  written # <<>> /\ Head(written) \notin DOMAIN commands_m

\* the line starts with a word that is not a pipe word
StartsWithName(line) == line # <<>> /\ ~StartsWithPipe(Head(Split(line)))

\* C1: a line (here one that starts with a name) with a stage whose name is
\* not registered queues nothing, and the execute() that follows it invokes
\* no action at all.
C1_UnknownStageQueuesNothing ==
    (StartsWithName(input) /\ SomeStageUnknown(input)) =>
        (queuedCommands_m = <<>> /\ calls = <<>>)

\* C2: when execute() is done with a queued pipeline, or a stage has ended the
\* process abnormally, the master's action was invoked once with the master's
\* bound arguments and then every subcommand's action once, in order, with its
\* bound arguments followed by the result of the stage before it.
C2_EveryStageInvokedWithThreadedResult ==
    (/\ queuedCommands_m # <<>>
     /\ \/ pc \in {"aborted", "diverged"} /\ stage >= 1
        \/ pc = "execute" /\ stage = Len(Head(queuedCommands_m).subcommands_m) + 1) =>
        LET masterCommand == Head(queuedCommands_m)
            subcommands == masterCommand.subcommands_m
        IN  /\ Len(StageCalls) = Len(subcommands) + 1
            /\ StageCalls[1].name = masterCommand.name_m
            /\ StageCalls[1].arguments = masterCommand.arguments_m
            /\ \A i \in 1..Len(subcommands) :
                /\ StageCalls[i + 1].name = subcommands[i].name_m
                /\ StageCalls[i + 1].arguments
                       = subcommands[i].arguments_m \o StageCalls[i].result

\* the words of a line with every glued pipe written apart
RECURSIVE UnglueWords(_)
UnglueWords(words) ==
    IF words = <<>> THEN <<>>
    ELSE (IF StartsWithPipe(Head(words)) /\ Len(Head(words)) > 1
          THEN <<Pipe, Tail(Head(words))>> ELSE <<Head(words)>>)
         \o UnglueWords(Tail(words))

Unglue(line) == JoinWithSpace(UnglueWords(Split(line)))

\* C3: a line queues the same pipeline with a later stage written `|cmd args`
\* as with the stage written `| cmd args`: what enqueue_command has queued
\* when it returns for the line read (here one that starts with a name) is
\* what it queues for the line with its pipes written apart.
C3_GluedPipeQueuesTheSame ==
    (StartsWithName(input) /\ stage = 0 /\ calls = <<>> /\ pc = "execute") =>
        \E o \in enqueue_command(Unglue(input)) :
            /\ ~o.fault
            /\ o.pushed = queuedCommands_m

ApplyLine == JoinWithSpace(<<apply, sub, <<"1", "0">>, <<"1">>, <<"2">>, <<"3">>>>)

\* the front of every non-empty result among the calls, in order
RECURSIVE FirstOutputs(_)
FirstOutputs(made) ==
    IF made = <<>> THEN <<>>
    ELSE (IF Head(made).result # <<>> THEN <<Head(Head(made).result)>> ELSE <<>>)
         \o FirstOutputs(Tail(made))

\* C4: apply, having returned for a registered target of arity n, invoked the
\* target once per word after the first n - 1 words that follow the target's
\* name, in order, with those n - 1 words followed by the word, and returned
\* the first outputs; `apply sub 10 1 2 3` returns 9, 8, 7.
C4_ApplyFixedPrefixThenWord ==
    (/\ pc = "execute" /\ stage = 1 /\ queuedCommands_m # <<>>
     /\ Head(queuedCommands_m).name_m = apply
     /\ Head(queuedCommands_m).arguments_m # <<>>
     /\ Head(queuedCommands_m).arguments_m[1] \in DOMAIN commands_m) =>
        LET arguments == Head(queuedCommands_m).arguments_m
            n == commands_m[arguments[1]].numberOfArguments_m
            fixed == SubSeq(arguments, 2, IF n < Len(arguments) THEN n ELSE Len(arguments))
            stream == SubSeq(arguments, Len(fixed) + 2, Len(arguments))
        IN  /\ Len(AppliedCalls) = Len(stream)
            /\ \A i \in 1..Len(stream) :
                /\ AppliedCalls[i].name = arguments[1]
                /\ AppliedCalls[i].arguments = fixed \o <<stream[i]>>
            /\ operationResult = FirstOutputs(AppliedCalls)
            /\ input = ApplyLine => operationResult = <<<<"9">>, <<"8">>, <<"7">>>>

Example11 == JoinWithSpace(<<<<"3">>, <<"+">>, <<"4">>, <<"*">>, <<"2">>>>)

Example14 ==
    JoinWithSpace(<<<<"(">>, <<"3">>, <<"+">>, <<"4">>, <<")">>, <<"*">>, <<"2">>>>)

\* C5: the value evaluate_expression returns for the postfix sequence that
\* parse_expression makes of a well-formed expression's tokens is the
\* expression's value under the usual rules; `3 + 4 * 2` gives 11 and
\* `( 3 + 4 ) * 2` gives 14.
C5_EvaluatesByTheUsualRules ==
    /\ epc \in {"infix", "tokens", "postfix", "value"}
    /\ epc = "value" =>
        /\ value = UsualValue(infix)
        /\ infix = Example11 => value = Float(11, 1)
        /\ infix = Example14 => value = Float(14, 1)

C5_Witness ==
    /\ epc = "value"
    /\ infix = Example14
    /\ value = Float(14, 1)
    /\ Len(expression) = 5

\* the minimum number of single-character insertions, deletions and
\* substitutions that turn a into b
RECURSIVE Levenshtein(_, _)
Levenshtein(a, b) ==
    IF a = <<>> THEN Len(b)
    ELSE IF b = <<>> THEN Len(a)
    ELSE Min3(Levenshtein(Tail(a), b) + 1,
              Levenshtein(a, Tail(b)) + 1,
              Levenshtein(Tail(a), Tail(b)) + (IF Head(a) = Head(b) THEN 0 ELSE 1))

\* C6: calculate_edit_distance(a, b) is the Levenshtein distance of a and b.
C6_DistanceIsLevenshtein ==
    dpc = "distance" => distance = Levenshtein(from, to)

\* C7: calculate_edit_distance(x, x) is 0 for every registered name x, and
\* calculate_edit_distance(x, y) is calculate_edit_distance(y, x) for all
\* strings x and y.
C7_DistanceZeroOnNamesAndSymmetric ==
    dpc = "distance" =>
        /\ (from = to /\ from \in DOMAIN commands_m) => distance = 0
        /\ distance = calculate_edit_distance(to, from)

C7_Witness ==
    /\ dpc = "distance"
    /\ from = echo
    /\ to = <<"c", "e">>
    /\ distance = 1

\* the similarity of the claim, (maxLen - distance) / maxLen * 100, above 70:
\* (maxLen - distance) * 100 > 70 * maxLen
IsSimilarExact(commandName, name) ==
    LET size == Max(Len(commandName), Len(name))
    IN  (size - calculate_edit_distance(commandName, name)) * 100 > 70 * size

\* C8: the names handle_non_existing_command lists are exactly the registered
\* names whose similarity to the unknown name is above 70.
C8_ListsNamesAboveSeventyPercent ==
    dpc = "reported" =>
        similarCommands = {name \in DOMAIN commands_m : IsSimilarExact(from, name)}

\* the subtraction size - distance of handle_non_existing_command never wraps
DistanceWithinSize ==
    dpc = "distance" => distance <= Max(Len(from), Len(to))

EcoLine == JoinWithSpace(<<eco, <<"1">>, <<"2">>>>)

\* C9: for the line `eco 1 2` nothing is queued, nothing is invoked, and the
\* suggestions printed for `eco` hold `echo`.
C9_EcoSuggestsEcho ==
    input = EcoLine =>
        /\ queuedCommands_m = <<>>
        /\ calls = <<>>
        /\ pc = "execute"
        /\ \E i \in 1..Len(out) :
            /\ out[i].kind = "notfound"
            /\ out[i].commandName = eco
            /\ echo \in out[i].similarCommands

C9_Witness ==
    /\ input = EcoLine
    /\ pc = "execute"
    /\ Len(out) = 1

\* the master and the subcommands of the queued pipelines
QueuedStages ==
    UNION {{queuedCommands_m[i]}
           \cup {queuedCommands_m[i].subcommands_m[j] :
                    j \in 1..Len(queuedCommands_m[i].subcommands_m)}
           : i \in 1..Len(queuedCommands_m)}

\* C10: for every queued command c, operator()() and operator()({}) hand the
\* action the same list and have the same outcome, operator()(xs) hands it
\* c's bound arguments followed by xs, for xs the running result, and an
\* invocation leaves the queued commands as they were.
C10_NoArgumentsIsEmptyList ==
    /\ [](\A c \in QueuedStages :
            /\ LocalArguments(c, <<>>) = BoundArguments(c)
            /\ Invoke(c, <<>>) = InvokeNoArguments(c)
            /\ LocalArguments(c, operationResult) = c.arguments_m \o operationResult)
    /\ [][Len(calls') > Len(calls) => queuedCommands_m' = queuedCommands_m]_vars

C10_Witness ==
    /\ pc = "execute"
    /\ stage = 2
    /\ queuedCommands_m # <<>>
    /\ Head(queuedCommands_m).subcommands_m[1].arguments_m = <<<<"3">>>>
    /\ StageCalls[2].arguments = <<<<"3">>, <<"1">>, <<"2">>, <<"3">>>>

\* C11: register_command fails fatally when the command's name is already
\* registered and leaves the map as it was; the definitions already registered
\* are never replaced, so every name keeps the first definition registered
\* under it and maps to a definition of that name; and register_commands
\* registers exactly quit, echo, add, sub, mul, div, hex, bin, iota and apply
\* without a failed assertion.
C11_DuplicateRegistrationIsFatal ==
    /\ [](/\ \A command \in Definitions :
               command.name_m \in DOMAIN commands_m =>
                   /\ ~register_command(commands_m, command).ok
                   /\ register_command(commands_m, command).map = commands_m
           /\ \A n \in DOMAIN commands_m : commands_m[n].name_m = n
           /\ RegisterFrom(EmptyMap, RegisteredCommands, 1).ok
           /\ DOMAIN register_commands =
                  {quit, echo, add, sub, mul, div, hex, bin, iota, apply}
           /\ \A i \in 1..Len(RegisteredCommands) :
                  register_commands[RegisteredCommands[i].name_m] = RegisteredCommands[i])
    /\ [][/\ \A n \in DOMAIN commands_m :
               n \in DOMAIN commands_m' /\ commands_m'[n] = commands_m[n]
           /\ (pc' = "aborted") = (commands_m' = commands_m)]_vars

\* every command of register_commands is registered and a further
\* registration has failed
C11_Witness == pc = "aborted" /\ commands_m = register_commands

CountType(tokenList, k, type) ==
    Cardinality({i \in 1..k : tokenList[i].type = type})

\* some right parenthesis has no left parenthesis open before it: it is met
\* while the side-stack holds no LeftParen
UnmatchedRightParen(tokenList) ==
    \E k \in 1..Len(tokenList) :
        CountType(tokenList, k, "RPAREN") > CountType(tokenList, k, "LPAREN")

\* parse_expression has been called on tokens and has returned or failed
ParseHasRun ==
    \/ epc \in {"postfix", "value", "undefined"}
    \/ epc = "aborted" /\ tokens # <<>>

\* C13: once parse_expression has run on a token sequence in which a right
\* parenthesis is met while the side-stack holds no left parenthesis, it has
\* failed (the mismatched-parenthesis assertion) and has returned no postfix
\* sequence.
C13_UnmatchedRightParenFails ==
    (ParseHasRun /\ UnmatchedRightParen(tokens)) =>
        (epc = "aborted" /\ expression = <<>>)

\* `2 + 2 )`: operators were popped to the output before the stack ran empty
C13_Witness ==
    /\ epc = "aborted"
    /\ Len(tokens) = 3
    /\ tokens[1].type = "NUMBER"
    /\ tokens[2].type = "OPERATOR"
    /\ tokens[3].type = "RPAREN"
    /\ expression = <<>>

\* the word is none that tokenize has a case for
UnrecognizedWord(word) ==
    /\ \E i \in 1..Len(word) :
           word[i] \notin {"0", "1", "2", "3", "4", "5", "6", "7", "8", "9", "."}
    /\ Head(word) \notin {"+", "-", "*", "/", "(", ")"}

C15_QuitEndsTheProcess ==
    /\ [](\A i \in 1..Len(calls) :
              calls[i].name = quit => (i = Len(calls) /\ pc = "exited"))
    /\ [][pc # "exited"]_vars

\* `iota 1 3 | quit | echo` followed by another queued pipeline: quit has run
\* as the second stage, its echo and the other pipeline are left in the queue
C15_Witness ==
    /\ pc = "exited"
    /\ Len(queuedCommands_m) = 2
    /\ Len(Head(queuedCommands_m).subcommands_m) = 2
    /\ Len(calls) = 2
    /\ calls[2].name = quit

\* C16: in main()'s loop the queue is empty whenever a line is read, it never
\* holds more than one master, and a line is parsed only when every stage of
\* the line before it has run and its master has been popped.
C16_OneLineAtATime ==
    /\ [](/\ Len(queuedCommands_m) <= 1
           /\ pc = "prompt" => (queuedCommands_m = <<>> /\ calls = <<>>))
    /\ [][(enqueued' # enqueued /\ enqueued' # <<>>) =>
               (pc = "prompt" /\ queuedCommands_m = <<>> /\ enqueued = <<>>)]_vars

\* a two-stage line has run both stages and its master has been popped
C16_Witness ==
    /\ pc = "execute"
    /\ queuedCommands_m = <<>>
    /\ Len(enqueued) = 1
    /\ Len(enqueued[1].subcommands_m) = 1
    /\ Len(StageCalls) = 2

\* the words of a line that are bound as some stage's arguments
LineWords(line) == {Split(line)[i] : i \in 1..Len(Split(line))}

\* C17: the registry stays as register_commands left it, every definition with
\* its name, its arity, no bound argument and no subcommand; and the bound
\* arguments of every queued stage are words of the line just read, none
\* carried over from a line before it.
C17_RegistryNeverChanges ==
    /\ commands_m = register_commands
    /\ \A n \in DOMAIN commands_m :
           /\ commands_m[n].name_m = n
           /\ commands_m[n].arguments_m = <<>>
           /\ commands_m[n].subcommands_m = <<>>
    /\ \A c \in QueuedStages :
           /\ c.numberOfArguments_m = register_commands[c.name_m].numberOfArguments_m
           /\ \A k \in 1..Len(c.arguments_m) : c.arguments_m[k] \in LineWords(input)

\* `iota 1 3 | echo 3` has been parsed and run: both stages had bound arguments
C17_Witness ==
    /\ pc = "execute"
    /\ Len(enqueued) = 1
    /\ enqueued[1].arguments_m = <<<<"1">>, <<"3">>>>
    /\ Len(enqueued[1].subcommands_m) = 1
    /\ enqueued[1].subcommands_m[1].arguments_m = <<<<"3">>>>
    /\ Len(StageCalls) = 2
    /\ queuedCommands_m = <<>>

\* C18: a queued pipeline without quit runs to completion; so no stage that
\* was invoked is left running forever, iota with its minimum greater than its
\* maximum included, which has to return a finite list.
C18_EveryStageReturns ==
    (calls # <<>> /\ \A i \in 1..Len(calls) : calls[i].name # quit) =>
        (pc # "diverged")

\* the stages of a pipeline in the order they are to run: the master, then its
\* subcommands
StagesOf(masterCommand) ==
    <<masterCommand.name_m>>
    \o [j \in 1..Len(masterCommand.subcommands_m) |-> masterCommand.subcommands_m[j].name_m]

\* the stages of the first k of the pipelines, one pipeline after the other
RECURSIVE StagesOfFirst(_, _)
StagesOfFirst(masters, k) ==
    IF k = 0 THEN <<>> ELSE StagesOfFirst(masters, k - 1) \o StagesOf(masters[k])

\* the number of masters execute() has popped
Popped == Len(enqueued) - Len(queuedCommands_m)

\* C19: with several lines enqueued before execute(), the queue is always what
\* was enqueued less the masters popped from its front, oldest first; and the
\* stages run so far are, in order, all stages of each popped master, pipeline
\* after pipeline in the order enqueued, followed by the stages run of the
\* master at the front: a master is popped only once its last stage has run.
C19_QueueIsFifo ==
    /\ Popped >= 0
    /\ queuedCommands_m = SubSeq(enqueued, Popped + 1, Len(enqueued))
    /\ [i \in 1..Len(StageCalls) |-> StageCalls[i].name] =
           StagesOfFirst(enqueued, Popped)
           \o (IF queuedCommands_m = <<>> THEN <<>>
               ELSE SubSeq(StagesOf(Head(queuedCommands_m)), 1, stage))

\* three different pipelines were enqueued; the first two have run, stage by
\* stage, and were popped, and the third is running
C19_Witness ==
    /\ pc = "execute"
    /\ Len(enqueued) = 3
    /\ enqueued[1] # enqueued[2]
    /\ enqueued[2] # enqueued[3]
    /\ Len(enqueued[1].subcommands_m) = 1
    /\ Popped = 2
    /\ stage = 1
    /\ Len(StageCalls) = Len(StagesOfFirst(enqueued, 2)) + 1

\* the positions of a line's pipe-prefixed words
PipeWordsAt(words) == {i \in 1..Len(words) : StartsWithPipe(words[i])}

\* a line of non-empty words in which every stage resolves and every pipe word
\* is followed by a command name: the first stage, the master, is named by the
\* line's first word, each later stage by the word after its pipe word
EveryStageResolves(words) ==
    /\ words # <<>>
    /\ \A i \in 1..Len(words) : words[i] # <<>>
    /\ words[1] \in DOMAIN register_commands
    /\ \A i \in PipeWordsAt(words) :
           i < Len(words) /\ words[i + 1] \in DOMAIN register_commands

\* where the groups of a line start: at its first word and at every later
\* pipe-prefixed word
GroupStarts(words) == {1} \cup (PipeWordsAt(words) \ {1})

\* the group that starts at position c, without its pipe marker
GroupAt(words, c) ==
    LET later == {d \in GroupStarts(words) : d > c}
        last  == IF later = {} THEN Len(words)
                 ELSE (CHOOSE d \in later : \A e \in later : d <= e) - 1
    IN  SubSeq(words, IF c \in PipeWordsAt(words) THEN c + 1 ELSE c, last)

\* the k-th group start of a line, in line order
KthStart(words, k) ==
    CHOOSE c \in GroupStarts(words) :
        Cardinality({d \in GroupStarts(words) : d <= c}) = k

\* the command is the one the group asks for: named by its first word, bound
\* to the remaining words in order, none of them a pipe marker
StageIsGroup(command, group) ==
    /\ command.name_m = Head(group)
    /\ command.arguments_m = Tail(group)
    /\ \A k \in 1..Len(command.arguments_m) : ~StartsWithPipe(command.arguments_m[k])

\* enqueue_command has just been called on the line read
JustEnqueued == pc \in {"execute", "aborted"} /\ stage = 0 /\ calls = <<>>

\* the queue holds one master whose stages are the line's groups in line
\* order, with subcommandCount subcommands
QueuedAsGrouped(words, subcommandCount) ==
    /\ pc = "execute"
    /\ Len(queuedCommands_m) = 1
    /\ Len(queuedCommands_m[1].subcommands_m) = subcommandCount
    /\ Cardinality(GroupStarts(words)) = subcommandCount + 1
    /\ StageIsGroup(queuedCommands_m[1], GroupAt(words, 1))
    /\ \A j \in 1..Len(queuedCommands_m[1].subcommands_m) :
           /\ StageIsGroup(queuedCommands_m[1].subcommands_m[j],
                           GroupAt(words, KthStart(words, j + 1)))
           /\ queuedCommands_m[1].subcommands_m[j].subcommands_m = <<>>

C21_PostfixHasNoParenthesis ==
    (epc \in {"postfix", "value", "undefined"}) =>
        \A i \in 1..Len(expression) : expression[i].type \in {"NUMBER", "OPERATOR"}

\* tokenize has returned a token list
TokenizeHasReturned ==
    \/ epc \in {"tokens", "postfix", "value", "undefined"}
    \/ epc = "aborted" /\ tokens # <<>>

\* all characters are digits apart from at most a single decimal point
IsNumberSpelling(word) ==
    /\ \A i \in 1..Len(word) :
           word[i] \in {"0", "1", "2", "3", "4", "5", "6", "7", "8", "9", "."}
    /\ Cardinality({i \in 1..Len(word) : word[i] = "."}) <= 1

\* the class and tier of a word that is no number, by its first character;
\* tiers are given as the enumerators' order in Precedence
ClassByFirstCharacter(word) ==
    CASE Head(word) \in {"+", "-"} -> [type |-> "OPERATOR", precedence |-> 1]
      [] Head(word) \in {"*", "/"} -> [type |-> "OPERATOR", precedence |-> 2]
      [] Head(word) = "(" -> [type |-> "LPAREN", precedence |-> 3]
      [] Head(word) = ")" -> [type |-> "RPAREN", precedence |-> 3]
      [] OTHER -> [type |-> "none", precedence |-> 0 - 1]

\* C22: the token list tokenize returns has one token per word of the stream,
\* in order; a token is a Number, with precedence none, exactly when its word
\* is digits with at most one decimal point, and otherwise has the class and
\* tier of its first character; every Operator token has left fixity.
C22_TokensClassifyTheWords ==
    TokenizeHasReturned =>
        /\ Len(tokens) = Len(StreamWords(infix))
        /\ \A i \in 1..Len(tokens) :
               LET word == StreamWords(infix)[i]
               IN  /\ tokens[i].value = word
                   /\ IF IsNumberSpelling(word)
                      THEN tokens[i].type = "NUMBER" /\ tokens[i].precedence = 0
                      ELSE /\ tokens[i].type = ClassByFirstCharacter(word).type
                           /\ tokens[i].precedence = ClassByFirstCharacter(word).precedence
                   /\ tokens[i].type = "OPERATOR" => tokens[i].fixity = "LEFT"

\* the postfix sequence is `a b op`: two numbers and an operator
IsBinaryPostfix(tokenList) ==
    /\ Len(tokenList) = 3
    /\ tokenList[1].type = "NUMBER"
    /\ tokenList[2].type = "NUMBER"
    /\ tokenList[3].type = "OPERATOR"

\* a op b for integers a and b, b not 0 under /
BinaryValue(symbol, a, b) ==
    CASE symbol = "+" -> Float(a + b, 1)
      [] symbol = "-" -> Float(a - b, 1)
      [] symbol = "*" -> Float(a * b, 1)
      [] symbol = "/" -> Float(a, b)

\* C23: evaluate_expression gives the postfix sequence `a b op` the value
\* a op b, the first value popped being the right-hand operand, for each of
\* + - * /; `8 3 -` gives 5.
C23_FirstPoppedIsRightOperand ==
    (epc = "value" /\ IsBinaryPostfix(expression)) =>
        /\ value = BinaryValue(Head(expression[3].value),
                               ParseFloat(expression[1].value),
                               ParseFloat(expression[2].value))
        /\ (expression[1].value = <<"8">> /\ expression[2].value = <<"3">>
               /\ expression[3].value = <<"-">>) => value = Float(5, 1)

\* `8 3 -` has been evaluated to 5
C23_Witness ==
    /\ epc = "value"
    /\ IsBinaryPostfix(expression)
    /\ expression[1].value = <<"8">>
    /\ expression[2].value = <<"3">>
    /\ expression[3].value = <<"-">>
    /\ value = Float(5, 1)

\* the positions in calls of the calls made for the stages of the pipeline
StagePositions == {p \in 1..Len(calls) : calls[p].level = "stage"}

\* the position of the first stage call after position p, past the end of
\* calls where there is none
NextStagePosition(p) ==
    LET later == {q \in StagePositions : q > p}
    IN  IF later = {} THEN Len(calls) + 1
        ELSE CHOOSE q \in later : \A r \in later : q <= r

\* the invocations made by the stage call at position p
AppliedBy(p) == SubSeq(calls, p + 1, NextStagePosition(p) - 1)

\* the stage call at position p has returned a result
StageHasReturned(p) == NextStagePosition(p) <= Len(calls) \/ pc = "execute"

\* the arguments typed after the name of the stage whose call is at position p
TypedArgumentsAt(p) ==
    LET k == Cardinality({q \in StagePositions : q <= p})
    IN  IF k = 1 THEN enqueued[1].arguments_m
        ELSE enqueued[1].subcommands_m[k - 1].arguments_m

\* C24: a stage running apply whose first argument names no registered
\* command invokes no target, returns the empty list and lets the pipeline go
\* on, the next stage receiving only its own typed arguments; where the target
\* is registered and apply has returned, the result is the first output of
\* each invocation that returned some, in the order of the streamed words, so
\* at most one element per streamed word.
C24_ApplyOnUnknownTarget ==
    \A p \in StagePositions :
        (calls[p].name = apply /\ calls[p].arguments # <<>>) =>
            LET arguments == calls[p].arguments
                next == NextStagePosition(p)
            IN  IF arguments[1] \notin DOMAIN commands_m
                THEN /\ AppliedBy(p) = <<>>
                     /\ calls[p].result = <<>>
                     /\ StageHasReturned(p)
                     /\ next <= Len(calls) => calls[next].arguments = TypedArgumentsAt(next)
                ELSE StageHasReturned(p) =>
                     LET stream == Drop(arguments,
                                        commands_m[arguments[1]].numberOfArguments_m)
                     IN  /\ Len(calls[p].result) <= Len(stream)
                         /\ Len(AppliedBy(p)) = Len(stream)
                         /\ \A i \in 1..Len(stream) :
                               /\ AppliedBy(p)[i].level = "applied"
                               /\ stream[i] \in {AppliedBy(p)[i].arguments[j] :
                                                   j \in 1..Len(AppliedBy(p)[i].arguments)}
                         /\ calls[p].result = FirstOutputs(AppliedBy(p))

\* `apply eco | echo` has run: apply reported eco as unknown and returned
\* nothing, and echo was then invoked with no argument
C24_Witness ==
    /\ input = JoinWithSpace(<<apply, eco, Pipe, echo>>)
    /\ pc = "execute"
    /\ Len(calls) = 2
    /\ calls[1].name = apply /\ calls[1].arguments = <<eco>> /\ calls[1].result = <<>>
    /\ calls[2].name = echo /\ calls[2].arguments = <<>>
    /\ \E i \in 1..Len(out) : out[i].kind = "notfound" /\ out[i].commandName = eco

\* apply over a registered target has returned fewer results than it streamed
\* words, every invocation of echo returning nothing
C24_WitnessResolved ==
    /\ pc = "execute"
    /\ \E p \in StagePositions :
        /\ calls[p].name = apply
        /\ calls[p].arguments # <<>>
        /\ calls[p].arguments[1] = echo
        /\ Len(AppliedBy(p)) >= 1
        /\ calls[p].result = <<>>

\* C25: whenever parse_expression has returned a postfix sequence,
\* evaluate_expression on it never reads or pops an empty numeric stack.
C25_CompiledNeverUnderflows ==
    (epc \in {"postfix", "value", "undefined"}) =>
        /\ evaluate_expression(expression).ok
        /\ epc # "undefined"

\* the line has a group made of pipe words only: a pipe word with no command
\* name after it
HasPipeWithoutName(line) ==
    \E i \in 1..Len(ChunkBy(Split(line))) : DropWhilePipe(ChunkBy(Split(line))[i]) = <<>>

\* every stage of the master is a registered command under a name of the line
IsWellFormedPipeline(masterCommand, line) ==
    /\ masterCommand.name_m \in DOMAIN register_commands
    /\ masterCommand.name_m \in {Split(line)[i] : i \in 1..Len(Split(line))}
    /\ \A k \in 1..Len(masterCommand.subcommands_m) :
          /\ masterCommand.subcommands_m[k].name_m \in DOMAIN register_commands
          /\ masterCommand.subcommands_m[k].name_m \in
                 {Split(line)[i] : i \in 1..Len(Split(line))}

\* C26: for a line with a pipe word that no command name follows,
\* enqueue_command ends without a fault, having queued nothing or a
\* well-formed pipeline.
C26_PipeWithoutNameIsHarmless ==
    (JustEnqueued /\ HasPipeWithoutName(input)) =>
        /\ pc # "aborted"
        /\ Len(queuedCommands_m) <= 1
        /\ \A i \in 1..Len(queuedCommands_m) :
              IsWellFormedPipeline(queuedCommands_m[i], input)

====
